---------------------------- MODULE Spec2Model ----------------------------
(***************************************************************************)
(* A model of quickenv (src/quickenv.go): the line parser (parseLine,      *)
(* isValidEnvKey, unquoteValue), the upward file search (findEnvFile) and  *)
(* the loader loop (loadFromReader).                                       *)
(*                                                                         *)
(* A Go string is a sequence of bytes; it is modelled as a sequence of     *)
(* integers 0..255.  Where the source ranges over a string it decodes      *)
(* UTF-8 runes, and where it indexes a string it reads bytes: the model    *)
(* keeps that difference.                                                  *)
(***************************************************************************)
EXTENDS Integers, Sequences, FiniteSets, TLC

VARIABLES
    pc,         \* position of the modelled call
    input,      \* argument of a pure function call (a Go string)
    output,     \* its return value
    reader,     \* loadFromReader: the lines the scanner yields, and whether the read ends in an error
    options,    \* loadFromReader: the LoadOptions in force (Overwrite, Debug)
    env,        \* the process environment table: name -> value ("" = unset or empty)
    lineNo,     \* loadFromReader: number of lines the scanner has yielded
    loaded,     \* loadFromReader: the local counter
    ret,        \* loadFromReader: the (count, error) returned
    stderr,     \* loadFromReader: what debug mode printed, one record per Fprintf
    fs,         \* findEnvFile: the directory chain, from the working directory up to the root
    search,     \* findEnvFile: the locals dir and level, and the os.Stat calls made so far
    found       \* findEnvFile: the (path, error) returned

vars == <<pc, input, output, reader, options, env, lineNo, loaded, ret, stderr,
          fs, search, found>>

pureVars == <<input, output>>
loadVars == <<reader, options, env, lineNo, loaded, ret, stderr>>
findVars == <<fs, search, found>>

-----------------------------------------------------------------------------
(* Bounds of the model. *)

\* longest enumerated argument of isValidEnvKey
MaxKeyLen == 5
\* longest enumerated argument of unquoteValue
MaxValLen == 5
\* longest enumerated tail of a parseLine argument
MaxBodyLen == 4
\* most lines in a stream handed to loadFromReader
MaxLines == 3
\* deepest working directory (number of ancestors up to the root)
MaxDepth == 4
\* largest MaxLevels handed to findEnvFile
MaxMaxLevels == 4

-----------------------------------------------------------------------------
(* Strings. *)

\* Printable ASCII, byte 32 (space) to byte 126 (~), to write string literals
\* (byte 96, the grave accent, cannot be written in a TLA+ string and is named).
AsciiTable ==
    <<" ", "!", "\"", "#", "$", "%", "&", "'", "(", ")", "*", "+", ",", "-", ".", "/",
      "0", "1", "2", "3", "4", "5", "6", "7", "8", "9", ":", ";", "<", "=", ">", "?",
      "@", "A", "B", "C", "D", "E", "F", "G", "H", "I", "J", "K", "L", "M", "N", "O",
      "P", "Q", "R", "S", "T", "U", "V", "W", "X", "Y", "Z", "[", "\\", "]", "^", "_",
      "grave", "a", "b", "c", "d", "e", "f", "g", "h", "i", "j", "k", "l", "m", "n", "o",
      "p", "q", "r", "s", "t", "u", "v", "w", "x", "y", "z", "{", "|", "}", "~">>

Ord(c) == 31 + (CHOOSE i \in 1..Len(AsciiTable) : AsciiTable[i] = c)

\* The Go string literal whose characters are the one-character strings of t.
Str(t) == [i \in 1..Len(t) |-> Ord(t[i])]

\* The bytes the source names.
DoubleQuote == Ord("\"")
SingleQuote == Ord("'")
EqualsSign == Ord("=")
Underscore == Ord("_")
Hash == Ord("#")
Asterisk == Ord("*")
ExportKeyword == Str(<<"e", "x", "p", "o", "r", "t">>)

\* All strings over the byte set A of length at most n.
StringsOver(A, n) == UNION {[1..k -> A] : k \in 0..n}

\* s[i:] of Go, i counted from 0.
From(s, i) == SubSeq(s, i + 1, Len(s))

\* s[:i] of Go, i counted from 0.
UpTo(s, i) == SubSeq(s, 1, i)

\* strings.HasPrefix
HasPrefix(s, p) == Len(s) >= Len(p) /\ SubSeq(s, 1, Len(p)) = p

\* strings.TrimPrefix
TrimPrefix(s, p) == IF HasPrefix(s, p) THEN From(s, Len(p)) ELSE s

\* strings.Repeat of the one-byte string b
Repeat(b, n) == [i \in 1..n |-> b]

\* utf8.RuneError, what decoding yields for a byte that starts no valid encoding
RuneError == 65533

\* b is a UTF-8 continuation byte, 80..BF.
isCont(b) == b >= 128 /\ b <= 191

\* utf8.DecodeRuneInString, which `for _, char := range s` uses too: the rune
\* at the head of the non-empty string s and its width in bytes.  An encoding
\* is one to four bytes; a lead byte C0, C1 or F5..FF, a continuation byte in
\* the lead position, a truncated encoding, an overlong one (E0 80..9F,
\* F0 80..8F), a surrogate (ED A0..BF) and a code point above U+10FFFF
\* (F4 90..BF) decode as RuneError of width 1.
DecodeRune(s) ==
    LET n  == Len(s)
        b0 == s[1]
        invalid == [r |-> RuneError, w |-> 1]
    IN  IF b0 < 128 THEN [r |-> b0, w |-> 1]
        ELSE IF b0 >= 194 /\ b0 <= 223
        THEN IF n >= 2 /\ isCont(s[2])
             THEN [r |-> (b0 - 192) * 64 + (s[2] - 128), w |-> 2]
             ELSE invalid
        ELSE IF b0 >= 224 /\ b0 <= 239
        THEN IF /\ n >= 3
                /\ s[2] >= (IF b0 = 224 THEN 160 ELSE 128)
                /\ s[2] <= (IF b0 = 237 THEN 159 ELSE 191)
                /\ isCont(s[3])
             THEN [r |-> (b0 - 224) * 4096 + (s[2] - 128) * 64 + (s[3] - 128), w |-> 3]
             ELSE invalid
        ELSE IF b0 >= 240 /\ b0 <= 244
        THEN IF /\ n >= 4
                /\ s[2] >= (IF b0 = 240 THEN 144 ELSE 128)
                /\ s[2] <= (IF b0 = 244 THEN 143 ELSE 191)
                /\ isCont(s[3])
                /\ isCont(s[4])
             THEN [r |-> (b0 - 240) * 262144 + (s[2] - 128) * 4096
                          + (s[3] - 128) * 64 + (s[4] - 128), w |-> 4]
             ELSE invalid
        ELSE invalid

\* The index (from 0) at which utf8.DecodeLastRuneInString starts to decode:
\* it steps back from start over continuation bytes, not below lim.
RECURSIVE runeStartFrom(_, _, _)
runeStartFrom(s, start, lim) ==
    IF start < lim THEN start
    ELSE IF ~isCont(s[start + 1]) THEN start
    ELSE runeStartFrom(s, start - 1, lim)

\* utf8.DecodeLastRuneInString: the rune at the end of the non-empty string s
\* and its width; RuneError of width 1 unless the bytes from the last rune
\* start (at most four back) decode to a rune that ends the string.
DecodeLastRune(s) ==
    LET end == Len(s)
        b   == s[end]
    IN  IF b < 128 THEN [r |-> b, w |-> 1]
        ELSE LET lim   == IF end - 4 < 0 THEN 0 ELSE end - 4
                 found0 == runeStartFrom(s, end - 2, lim)
                 start == IF found0 < 0 THEN 0 ELSE found0
                 d     == DecodeRune(From(s, start))
             IN  IF start + d.w # end THEN [r |-> RuneError, w |-> 1] ELSE d

\* Whether r lies in one of the ranges T[lo..hi] of the sorted table T, by
\* the binary search of the unicode package.
RECURSIVE inTable(_, _, _, _)
inTable(T, r, lo, hi) ==
    IF lo > hi THEN FALSE
    ELSE LET m == (lo + hi) \div 2
         IN  IF r < T[m][1] THEN inTable(T, r, lo, m - 1)
             ELSE IF r > T[m][2] THEN inTable(T, r, m + 1, hi)
             ELSE TRUE

\* unicode.Letter (category L) above Latin-1, as ranges <<first, last>>:
\* the tables of Unicode 15.0.0.
LetterTable ==
    << <<256, 705>>, <<710, 721>>, <<736, 740>>, <<748, 748>>, <<750, 750>>, <<880, 884>>,
       <<886, 887>>, <<890, 893>>, <<895, 895>>, <<902, 902>>, <<904, 906>>, <<908, 908>>,
       <<910, 929>>, <<931, 1013>>, <<1015, 1153>>, <<1162, 1327>>, <<1329, 1366>>, <<1369, 1369>>,
       <<1376, 1416>>, <<1488, 1514>>, <<1519, 1522>>, <<1568, 1610>>, <<1646, 1647>>, <<1649, 1747>>,
       <<1749, 1749>>, <<1765, 1766>>, <<1774, 1775>>, <<1786, 1788>>, <<1791, 1791>>, <<1808, 1808>>,
       <<1810, 1839>>, <<1869, 1957>>, <<1969, 1969>>, <<1994, 2026>>, <<2036, 2037>>, <<2042, 2042>>,
       <<2048, 2069>>, <<2074, 2074>>, <<2084, 2084>>, <<2088, 2088>>, <<2112, 2136>>, <<2144, 2154>>,
       <<2160, 2183>>, <<2185, 2190>>, <<2208, 2249>>, <<2308, 2361>>, <<2365, 2365>>, <<2384, 2384>>,
       <<2392, 2401>>, <<2417, 2432>>, <<2437, 2444>>, <<2447, 2448>>, <<2451, 2472>>, <<2474, 2480>>,
       <<2482, 2482>>, <<2486, 2489>>, <<2493, 2493>>, <<2510, 2510>>, <<2524, 2525>>, <<2527, 2529>>,
       <<2544, 2545>>, <<2556, 2556>>, <<2565, 2570>>, <<2575, 2576>>, <<2579, 2600>>, <<2602, 2608>>,
       <<2610, 2611>>, <<2613, 2614>>, <<2616, 2617>>, <<2649, 2652>>, <<2654, 2654>>, <<2674, 2676>>,
       <<2693, 2701>>, <<2703, 2705>>, <<2707, 2728>>, <<2730, 2736>>, <<2738, 2739>>, <<2741, 2745>>,
       <<2749, 2749>>, <<2768, 2768>>, <<2784, 2785>>, <<2809, 2809>>, <<2821, 2828>>, <<2831, 2832>>,
       <<2835, 2856>>, <<2858, 2864>>, <<2866, 2867>>, <<2869, 2873>>, <<2877, 2877>>, <<2908, 2909>>,
       <<2911, 2913>>, <<2929, 2929>>, <<2947, 2947>>, <<2949, 2954>>, <<2958, 2960>>, <<2962, 2965>>,
       <<2969, 2970>>, <<2972, 2972>>, <<2974, 2975>>, <<2979, 2980>>, <<2984, 2986>>, <<2990, 3001>>,
       <<3024, 3024>>, <<3077, 3084>>, <<3086, 3088>>, <<3090, 3112>>, <<3114, 3129>>, <<3133, 3133>>,
       <<3160, 3162>>, <<3165, 3165>>, <<3168, 3169>>, <<3200, 3200>>, <<3205, 3212>>, <<3214, 3216>>,
       <<3218, 3240>>, <<3242, 3251>>, <<3253, 3257>>, <<3261, 3261>>, <<3293, 3294>>, <<3296, 3297>>,
       <<3313, 3314>>, <<3332, 3340>>, <<3342, 3344>>, <<3346, 3386>>, <<3389, 3389>>, <<3406, 3406>>,
       <<3412, 3414>>, <<3423, 3425>>, <<3450, 3455>>, <<3461, 3478>>, <<3482, 3505>>, <<3507, 3515>>,
       <<3517, 3517>>, <<3520, 3526>>, <<3585, 3632>>, <<3634, 3635>>, <<3648, 3654>>, <<3713, 3714>>,
       <<3716, 3716>>, <<3718, 3722>>, <<3724, 3747>>, <<3749, 3749>>, <<3751, 3760>>, <<3762, 3763>>,
       <<3773, 3773>>, <<3776, 3780>>, <<3782, 3782>>, <<3804, 3807>>, <<3840, 3840>>, <<3904, 3911>>,
       <<3913, 3948>>, <<3976, 3980>>, <<4096, 4138>>, <<4159, 4159>>, <<4176, 4181>>, <<4186, 4189>>,
       <<4193, 4193>>, <<4197, 4198>>, <<4206, 4208>>, <<4213, 4225>>, <<4238, 4238>>, <<4256, 4293>>,
       <<4295, 4295>>, <<4301, 4301>>, <<4304, 4346>>, <<4348, 4680>>, <<4682, 4685>>, <<4688, 4694>>,
       <<4696, 4696>>, <<4698, 4701>>, <<4704, 4744>>, <<4746, 4749>>, <<4752, 4784>>, <<4786, 4789>>,
       <<4792, 4798>>, <<4800, 4800>>, <<4802, 4805>>, <<4808, 4822>>, <<4824, 4880>>, <<4882, 4885>>,
       <<4888, 4954>>, <<4992, 5007>>, <<5024, 5109>>, <<5112, 5117>>, <<5121, 5740>>, <<5743, 5759>>,
       <<5761, 5786>>, <<5792, 5866>>, <<5873, 5880>>, <<5888, 5905>>, <<5919, 5937>>, <<5952, 5969>>,
       <<5984, 5996>>, <<5998, 6000>>, <<6016, 6067>>, <<6103, 6103>>, <<6108, 6108>>, <<6176, 6264>>,
       <<6272, 6276>>, <<6279, 6312>>, <<6314, 6314>>, <<6320, 6389>>, <<6400, 6430>>, <<6480, 6509>>,
       <<6512, 6516>>, <<6528, 6571>>, <<6576, 6601>>, <<6656, 6678>>, <<6688, 6740>>, <<6823, 6823>>,
       <<6917, 6963>>, <<6981, 6988>>, <<7043, 7072>>, <<7086, 7087>>, <<7098, 7141>>, <<7168, 7203>>,
       <<7245, 7247>>, <<7258, 7293>>, <<7296, 7304>>, <<7312, 7354>>, <<7357, 7359>>, <<7401, 7404>>,
       <<7406, 7411>>, <<7413, 7414>>, <<7418, 7418>>, <<7424, 7615>>, <<7680, 7957>>, <<7960, 7965>>,
       <<7968, 8005>>, <<8008, 8013>>, <<8016, 8023>>, <<8025, 8025>>, <<8027, 8027>>, <<8029, 8029>>,
       <<8031, 8061>>, <<8064, 8116>>, <<8118, 8124>>, <<8126, 8126>>, <<8130, 8132>>, <<8134, 8140>>,
       <<8144, 8147>>, <<8150, 8155>>, <<8160, 8172>>, <<8178, 8180>>, <<8182, 8188>>, <<8305, 8305>>,
       <<8319, 8319>>, <<8336, 8348>>, <<8450, 8450>>, <<8455, 8455>>, <<8458, 8467>>, <<8469, 8469>>,
       <<8473, 8477>>, <<8484, 8484>>, <<8486, 8486>>, <<8488, 8488>>, <<8490, 8493>>, <<8495, 8505>>,
       <<8508, 8511>>, <<8517, 8521>>, <<8526, 8526>>, <<8579, 8580>>, <<11264, 11492>>, <<11499, 11502>>,
       <<11506, 11507>>, <<11520, 11557>>, <<11559, 11559>>, <<11565, 11565>>, <<11568, 11623>>, <<11631, 11631>>,
       <<11648, 11670>>, <<11680, 11686>>, <<11688, 11694>>, <<11696, 11702>>, <<11704, 11710>>, <<11712, 11718>>,
       <<11720, 11726>>, <<11728, 11734>>, <<11736, 11742>>, <<11823, 11823>>, <<12293, 12294>>, <<12337, 12341>>,
       <<12347, 12348>>, <<12353, 12438>>, <<12445, 12447>>, <<12449, 12538>>, <<12540, 12543>>, <<12549, 12591>>,
       <<12593, 12686>>, <<12704, 12735>>, <<12784, 12799>>, <<13312, 19903>>, <<19968, 42124>>, <<42192, 42237>>,
       <<42240, 42508>>, <<42512, 42527>>, <<42538, 42539>>, <<42560, 42606>>, <<42623, 42653>>, <<42656, 42725>>,
       <<42775, 42783>>, <<42786, 42888>>, <<42891, 42954>>, <<42960, 42961>>, <<42963, 42963>>, <<42965, 42969>>,
       <<42994, 43009>>, <<43011, 43013>>, <<43015, 43018>>, <<43020, 43042>>, <<43072, 43123>>, <<43138, 43187>>,
       <<43250, 43255>>, <<43259, 43259>>, <<43261, 43262>>, <<43274, 43301>>, <<43312, 43334>>, <<43360, 43388>>,
       <<43396, 43442>>, <<43471, 43471>>, <<43488, 43492>>, <<43494, 43503>>, <<43514, 43518>>, <<43520, 43560>>,
       <<43584, 43586>>, <<43588, 43595>>, <<43616, 43638>>, <<43642, 43642>>, <<43646, 43695>>, <<43697, 43697>>,
       <<43701, 43702>>, <<43705, 43709>>, <<43712, 43712>>, <<43714, 43714>>, <<43739, 43741>>, <<43744, 43754>>,
       <<43762, 43764>>, <<43777, 43782>>, <<43785, 43790>>, <<43793, 43798>>, <<43808, 43814>>, <<43816, 43822>>,
       <<43824, 43866>>, <<43868, 43881>>, <<43888, 44002>>, <<44032, 55203>>, <<55216, 55238>>, <<55243, 55291>>,
       <<63744, 64109>>, <<64112, 64217>>, <<64256, 64262>>, <<64275, 64279>>, <<64285, 64285>>, <<64287, 64296>>,
       <<64298, 64310>>, <<64312, 64316>>, <<64318, 64318>>, <<64320, 64321>>, <<64323, 64324>>, <<64326, 64433>>,
       <<64467, 64829>>, <<64848, 64911>>, <<64914, 64967>>, <<65008, 65019>>, <<65136, 65140>>, <<65142, 65276>>,
       <<65313, 65338>>, <<65345, 65370>>, <<65382, 65470>>, <<65474, 65479>>, <<65482, 65487>>, <<65490, 65495>>,
       <<65498, 65500>>, <<65536, 65547>>, <<65549, 65574>>, <<65576, 65594>>, <<65596, 65597>>, <<65599, 65613>>,
       <<65616, 65629>>, <<65664, 65786>>, <<66176, 66204>>, <<66208, 66256>>, <<66304, 66335>>, <<66349, 66368>>,
       <<66370, 66377>>, <<66384, 66421>>, <<66432, 66461>>, <<66464, 66499>>, <<66504, 66511>>, <<66560, 66717>>,
       <<66736, 66771>>, <<66776, 66811>>, <<66816, 66855>>, <<66864, 66915>>, <<66928, 66938>>, <<66940, 66954>>,
       <<66956, 66962>>, <<66964, 66965>>, <<66967, 66977>>, <<66979, 66993>>, <<66995, 67001>>, <<67003, 67004>>,
       <<67072, 67382>>, <<67392, 67413>>, <<67424, 67431>>, <<67456, 67461>>, <<67463, 67504>>, <<67506, 67514>>,
       <<67584, 67589>>, <<67592, 67592>>, <<67594, 67637>>, <<67639, 67640>>, <<67644, 67644>>, <<67647, 67669>>,
       <<67680, 67702>>, <<67712, 67742>>, <<67808, 67826>>, <<67828, 67829>>, <<67840, 67861>>, <<67872, 67897>>,
       <<67968, 68023>>, <<68030, 68031>>, <<68096, 68096>>, <<68112, 68115>>, <<68117, 68119>>, <<68121, 68149>>,
       <<68192, 68220>>, <<68224, 68252>>, <<68288, 68295>>, <<68297, 68324>>, <<68352, 68405>>, <<68416, 68437>>,
       <<68448, 68466>>, <<68480, 68497>>, <<68608, 68680>>, <<68736, 68786>>, <<68800, 68850>>, <<68864, 68899>>,
       <<69248, 69289>>, <<69296, 69297>>, <<69376, 69404>>, <<69415, 69415>>, <<69424, 69445>>, <<69488, 69505>>,
       <<69552, 69572>>, <<69600, 69622>>, <<69635, 69687>>, <<69745, 69746>>, <<69749, 69749>>, <<69763, 69807>>,
       <<69840, 69864>>, <<69891, 69926>>, <<69956, 69956>>, <<69959, 69959>>, <<69968, 70002>>, <<70006, 70006>>,
       <<70019, 70066>>, <<70081, 70084>>, <<70106, 70106>>, <<70108, 70108>>, <<70144, 70161>>, <<70163, 70187>>,
       <<70207, 70208>>, <<70272, 70278>>, <<70280, 70280>>, <<70282, 70285>>, <<70287, 70301>>, <<70303, 70312>>,
       <<70320, 70366>>, <<70405, 70412>>, <<70415, 70416>>, <<70419, 70440>>, <<70442, 70448>>, <<70450, 70451>>,
       <<70453, 70457>>, <<70461, 70461>>, <<70480, 70480>>, <<70493, 70497>>, <<70656, 70708>>, <<70727, 70730>>,
       <<70751, 70753>>, <<70784, 70831>>, <<70852, 70853>>, <<70855, 70855>>, <<71040, 71086>>, <<71128, 71131>>,
       <<71168, 71215>>, <<71236, 71236>>, <<71296, 71338>>, <<71352, 71352>>, <<71424, 71450>>, <<71488, 71494>>,
       <<71680, 71723>>, <<71840, 71903>>, <<71935, 71942>>, <<71945, 71945>>, <<71948, 71955>>, <<71957, 71958>>,
       <<71960, 71983>>, <<71999, 71999>>, <<72001, 72001>>, <<72096, 72103>>, <<72106, 72144>>, <<72161, 72161>>,
       <<72163, 72163>>, <<72192, 72192>>, <<72203, 72242>>, <<72250, 72250>>, <<72272, 72272>>, <<72284, 72329>>,
       <<72349, 72349>>, <<72368, 72440>>, <<72704, 72712>>, <<72714, 72750>>, <<72768, 72768>>, <<72818, 72847>>,
       <<72960, 72966>>, <<72968, 72969>>, <<72971, 73008>>, <<73030, 73030>>, <<73056, 73061>>, <<73063, 73064>>,
       <<73066, 73097>>, <<73112, 73112>>, <<73440, 73458>>, <<73474, 73474>>, <<73476, 73488>>, <<73490, 73523>>,
       <<73648, 73648>>, <<73728, 74649>>, <<74880, 75075>>, <<77712, 77808>>, <<77824, 78895>>, <<78913, 78918>>,
       <<82944, 83526>>, <<92160, 92728>>, <<92736, 92766>>, <<92784, 92862>>, <<92880, 92909>>, <<92928, 92975>>,
       <<92992, 92995>>, <<93027, 93047>>, <<93053, 93071>>, <<93760, 93823>>, <<93952, 94026>>, <<94032, 94032>>,
       <<94099, 94111>>, <<94176, 94177>>, <<94179, 94179>>, <<94208, 100343>>, <<100352, 101589>>, <<101632, 101640>>,
       <<110576, 110579>>, <<110581, 110587>>, <<110589, 110590>>, <<110592, 110882>>, <<110898, 110898>>, <<110928, 110930>>, <<110933, 110933>>, <<110948, 110951>>,
       <<110960, 111355>>, <<113664, 113770>>, <<113776, 113788>>, <<113792, 113800>>, <<113808, 113817>>, <<119808, 119892>>,
       <<119894, 119964>>, <<119966, 119967>>, <<119970, 119970>>, <<119973, 119974>>, <<119977, 119980>>, <<119982, 119993>>,
       <<119995, 119995>>, <<119997, 120003>>, <<120005, 120069>>, <<120071, 120074>>, <<120077, 120084>>, <<120086, 120092>>,
       <<120094, 120121>>, <<120123, 120126>>, <<120128, 120132>>, <<120134, 120134>>, <<120138, 120144>>, <<120146, 120485>>,
       <<120488, 120512>>, <<120514, 120538>>, <<120540, 120570>>, <<120572, 120596>>, <<120598, 120628>>, <<120630, 120654>>,
       <<120656, 120686>>, <<120688, 120712>>, <<120714, 120744>>, <<120746, 120770>>, <<120772, 120779>>, <<122624, 122654>>,
       <<122661, 122666>>, <<122928, 122989>>, <<123136, 123180>>, <<123191, 123197>>, <<123214, 123214>>, <<123536, 123565>>,
       <<123584, 123627>>, <<124112, 124139>>, <<124896, 124902>>, <<124904, 124907>>, <<124909, 124910>>, <<124912, 124926>>,
       <<124928, 125124>>, <<125184, 125251>>, <<125259, 125259>>, <<126464, 126467>>, <<126469, 126495>>, <<126497, 126498>>,
       <<126500, 126500>>, <<126503, 126503>>, <<126505, 126514>>, <<126516, 126519>>, <<126521, 126521>>, <<126523, 126523>>,
       <<126530, 126530>>, <<126535, 126535>>, <<126537, 126537>>, <<126539, 126539>>, <<126541, 126543>>, <<126545, 126546>>,
       <<126548, 126548>>, <<126551, 126551>>, <<126553, 126553>>, <<126555, 126555>>, <<126557, 126557>>, <<126559, 126559>>,
       <<126561, 126562>>, <<126564, 126564>>, <<126567, 126570>>, <<126572, 126578>>, <<126580, 126583>>, <<126585, 126588>>,
       <<126590, 126590>>, <<126592, 126601>>, <<126603, 126619>>, <<126625, 126627>>, <<126629, 126633>>, <<126635, 126651>>,
       <<131072, 173791>>, <<173824, 177977>>, <<177984, 178205>>, <<178208, 183969>>, <<183984, 191456>>, <<194560, 195101>>,
       <<196608, 201546>>, <<201552, 205743>> >>

\* unicode.Digit (category Nd), as ranges <<first, last>>: the tables of
\* Unicode 15.0.0.
DigitTable ==
    << <<48, 57>>, <<1632, 1641>>, <<1776, 1785>>, <<1984, 1993>>, <<2406, 2415>>, <<2534, 2543>>,
       <<2662, 2671>>, <<2790, 2799>>, <<2918, 2927>>, <<3046, 3055>>, <<3174, 3183>>, <<3302, 3311>>,
       <<3430, 3439>>, <<3558, 3567>>, <<3664, 3673>>, <<3792, 3801>>, <<3872, 3881>>, <<4160, 4169>>,
       <<4240, 4249>>, <<6112, 6121>>, <<6160, 6169>>, <<6470, 6479>>, <<6608, 6617>>, <<6784, 6793>>,
       <<6800, 6809>>, <<6992, 7001>>, <<7088, 7097>>, <<7232, 7241>>, <<7248, 7257>>, <<42528, 42537>>,
       <<43216, 43225>>, <<43264, 43273>>, <<43472, 43481>>, <<43504, 43513>>, <<43600, 43609>>, <<44016, 44025>>,
       <<65296, 65305>>, <<66720, 66729>>, <<68912, 68921>>, <<69734, 69743>>, <<69872, 69881>>, <<69942, 69951>>,
       <<70096, 70105>>, <<70384, 70393>>, <<70736, 70745>>, <<70864, 70873>>, <<71248, 71257>>, <<71360, 71369>>,
       <<71472, 71481>>, <<71904, 71913>>, <<72016, 72025>>, <<72784, 72793>>, <<73040, 73049>>, <<73120, 73129>>,
       <<73552, 73561>>, <<92768, 92777>>, <<92864, 92873>>, <<93008, 93017>>, <<120782, 120831>>, <<123200, 123209>>,
       <<123632, 123641>>, <<124144, 124153>>, <<125264, 125273>>, <<130032, 130041>> >>

\* unicode.IsLetter: the Latin-1 properties below U+0100, the table above.
IsLetter(r) ==
    IF r <= 255
    THEN \/ r >= 65 /\ r <= 90
         \/ r >= 97 /\ r <= 122
         \/ r \in {170, 181, 186}
         \/ r >= 192 /\ r <= 214
         \/ r >= 216 /\ r <= 246
         \/ r >= 248 /\ r <= 255
    ELSE inTable(LetterTable, r, 1, Len(LetterTable))

\* unicode.IsDigit: 0..9 below U+0100, the table above.
IsDigit(r) ==
    IF r <= 255
    THEN r >= 48 /\ r <= 57
    ELSE inTable(DigitTable, r, 1, Len(DigitTable))

\* unicode.IsSpace: the Latin-1 spaces below U+0100, White_Space above.
IsSpace(r) ==
    IF r <= 255
    THEN r \in {9, 10, 11, 12, 13, 32, 133, 160}
    ELSE \/ r = 5760
         \/ r >= 8192 /\ r <= 8202
         \/ r \in {8232, 8233, 8239, 8287, 12288}

RECURSIVE TrimLeftSpace(_)
TrimLeftSpace(s) ==
    IF s = <<>> THEN s
    ELSE LET d == DecodeRune(s)
         IN  IF IsSpace(d.r) THEN TrimLeftSpace(From(s, d.w)) ELSE s

RECURSIVE TrimRightSpace(_)
TrimRightSpace(s) ==
    IF s = <<>> THEN s
    ELSE LET d == DecodeLastRune(s)
         IN  IF IsSpace(d.r) THEN TrimRightSpace(UpTo(s, Len(s) - d.w)) ELSE s

\* strings.TrimSpace
TrimSpace(s) == TrimRightSpace(TrimLeftSpace(s))

-----------------------------------------------------------------------------
(* The pure functions of the parser. *)

\* The loop of isValidEnvKey over key[1:], which decodes runes.
RECURSIVE restIsValid(_)
restIsValid(rest) ==
    IF rest = <<>> THEN TRUE
    ELSE LET d == DecodeRune(rest)
         IN  IF ~IsLetter(d.r) /\ ~IsDigit(d.r) /\ d.r # Underscore
             THEN FALSE
             ELSE restIsValid(From(rest, d.w))

\* isValidEnvKey with the first character free to be a digit.
isValidEnvKeyFirstDigit(key) ==
    IF key = <<>> THEN FALSE
    ELSE IF ~IsLetter(key[1]) /\ ~IsDigit(key[1]) /\ key[1] # Underscore THEN FALSE
    ELSE restIsValid(From(key, 1))

\* isValidEnvKey: firstChar is rune(key[0]), the first BYTE of the key taken
\* as a code point; the rest is ranged over, rune by rune.
isValidEnvKey(key) ==
    IF key = <<>> THEN FALSE
    ELSE LET firstChar == key[1]
         IN  IF ~IsLetter(firstChar) /\ firstChar # Underscore THEN FALSE
             ELSE restIsValid(From(key, 1))

\* unquoteValue that strips any two quote characters, matching or not.
unquoteValueAnyPair(value) ==
    IF Len(value) >= 2 /\ value[1] \in {DoubleQuote, SingleQuote}
                       /\ value[Len(value)] \in {DoubleQuote, SingleQuote}
    THEN SubSeq(value, 2, Len(value) - 1)
    ELSE value

\* unquoteValue: bytes value[0] and value[len(value)-1].
unquoteValue(value) ==
    IF Len(value) >= 2
    THEN LET first == value[1]
             last  == value[Len(value)]
         IN  IF (first = DoubleQuote /\ last = DoubleQuote) \/ (first = SingleQuote /\ last = SingleQuote)
             THEN SubSeq(value, 2, Len(value) - 1)
             ELSE value
    ELSE value

\* The loop of parseLine without the quote tracking: the first '=' from byte
\* offset i on, quoted or not.
RECURSIVE loopIgnoresQuotes(_, _, _, _)
loopIgnoresQuotes(line, i, inQuotes, quoteChar) ==
    IF i >= Len(line) THEN -1
    ELSE LET d == DecodeRune(From(line, i))
         IN  IF d.r = EqualsSign THEN i
             ELSE loopIgnoresQuotes(line, i + d.w, inQuotes, quoteChar)

\* The labelled loop of parseLine from byte offset i (counted from 0) on:
\* the offset of the first '=' met outside quotes, -1 when the line ends first.
RECURSIVE loop(_, _, _, _)
loop(line, i, inQuotes, quoteChar) ==
    IF i >= Len(line) THEN -1
    ELSE LET d    == DecodeRune(From(line, i))
             char == d.r
         IN  IF char = DoubleQuote \/ char = SingleQuote
             THEN IF ~inQuotes THEN loop(line, i + d.w, TRUE, char)
                  ELSE IF char = quoteChar THEN loop(line, i + d.w, FALSE, quoteChar)
                  ELSE loop(line, i + d.w, inQuotes, quoteChar)
             ELSE IF char = EqualsSign /\ ~inQuotes THEN i
             ELSE loop(line, i + d.w, inQuotes, quoteChar)

\* The error values of parseLine; NoError is nil.
NoError == <<>>
ErrMissingEquals == <<"invalid line format, missing equals sign">>
ErrEmptyKey == <<"empty key">>
ErrInvalidKey(key) == <<"invalid key format: %s", key>>

\* What parseLine returns on an error: empty strings and the error.
Failed(err) == [key |-> <<>>, value |-> <<>>, err |-> err]

\* parseLine
parseLine(line0) ==
    LET line        == TrimPrefix(line0, ExportKeyword)
        equalsIndex == loop(line, 0, FALSE, 0)
    IN  IF equalsIndex = -1 THEN Failed(ErrMissingEquals)
        ELSE LET key   == TrimSpace(UpTo(line, equalsIndex))
                 value == TrimSpace(From(line, equalsIndex + 1))
             IN  IF key = <<>> THEN Failed(ErrEmptyKey)
                 ELSE IF ~isValidEnvKey(key) THEN Failed(ErrInvalidKey(key))
                 ELSE [key |-> key, value |-> unquoteValue(value), err |-> NoError]

-----------------------------------------------------------------------------
(* Calls of the pure functions: the argument is drawn in Init, the action  *)
(* is the call.                                                            *)

\* The variables of the loader and of the file search while neither runs.
IdleLoad ==
    /\ reader = [lines |-> <<>>, fails |-> FALSE]
    /\ options = [Overwrite |-> FALSE, Debug |-> FALSE]
    /\ env = <<>>
    /\ lineNo = 0
    /\ loaded = 0
    /\ ret = <<>>
    /\ stderr = <<>>

IdleFind ==
    /\ fs = [depth |-> 0, holds |-> {}, getwdFails |-> FALSE]
    /\ search = [maxLevels |-> 0, dir |-> 0, level |-> 0, stats |-> <<>>]
    /\ found = <<>>

IdlePure ==
    /\ input = <<>>
    /\ output = <<>>

\* Bytes of the enumerated keys: A, 1, _, -, and the UTF-8 lead bytes D0, D9
\* and continuation bytes BA, A3 (D0 BA is U+043A, D0 A3 is U+0423, D9 BA is
\* U+067A, all letters; D9 A3 is U+0663, a digit).
KeyBytes == {Ord("A"), Ord("1"), Underscore, Ord("-"), 208, 217, 186, 163}

\* Bytes of values: A, the two quotes, the backslash, the space.
ValueBytes == {Ord("A"), DoubleQuote, SingleQuote, Ord("\\"), Ord(" ")}

\* Bytes of lines: A, 1, =, the two quotes, the space, and D0 BA (U+043A).
LineBytes == {Ord("A"), Ord("1"), EqualsSign, DoubleQuote, SingleQuote, Ord(" "), 208, 186}

\* How the enumerated lines start, so that the export keyword, a key that
\* begins with the letters of the keyword, and a quoted value are all reached.
LineHeads ==
    { <<>>,
      ExportKeyword,
      Str(<<"e", "x", "p", "o", "r", "t", " ">>),
      Str(<<"A", "=">>),
      Str(<<"A", "=", "\"">>) }

\* Keys with characters of two, three and four bytes: A then U+03B1 (a
\* letter), U+06F0 (a digit), U+4E2D (a letter), U+1D400 (a letter), U+1342F
\* and U+1B132 (letters since Unicode 15.0.0), U+20AC (a symbol), U+3000 (a
\* space), the first two bytes of U+4E2D alone, and U+4E2D then A.
KeyExtras ==
    { <<65, 206, 177>>, <<65, 219, 176>>, <<65, 228, 184, 173>>,
      <<65, 240, 157, 144, 128>>, <<65, 240, 147, 144, 175>>,
      <<65, 240, 155, 132, 178>>, <<65, 226, 130, 172>>, <<65, 227, 128, 128>>,
      <<65, 228, 184>>, <<228, 184, 173, 65>> }

\* Lines with whitespace of more than one byte around key and value: U+3000
\* before A=1 and U+2003 after it, U+00A0 inside it, and a key with U+4E2D.
LineExtras ==
    { <<227, 128, 128, 65, 61, 49, 226, 128, 131>>,
      <<65, 194, 160, 61, 194, 160, 49>>,
      <<65, 228, 184, 173, 61, 49>> }

\* The lines parseLine is called on: a head and any tail of bounded length.
LineInputs(n) == {head \o body : head \in LineHeads, body \in StringsOver(LineBytes, n)}

InitKey ==
    /\ pc = "call"
    /\ input \in StringsOver(KeyBytes, MaxKeyLen) \cup KeyExtras
    /\ output = <<>>
    /\ IdleLoad
    /\ IdleFind

CallIsValidEnvKey ==
    /\ pc = "call"
    /\ output' = isValidEnvKey(input)
    /\ pc' = "isValidEnvKey"
    /\ UNCHANGED <<input, loadVars, findVars>>

SpecKey == InitKey /\ [][CallIsValidEnvKey]_vars

InitValue ==
    /\ pc = "call"
    /\ input \in StringsOver(ValueBytes, MaxValLen)
    /\ output = <<>>
    /\ IdleLoad
    /\ IdleFind

CallUnquoteValue ==
    /\ pc = "call"
    /\ output' = unquoteValue(input)
    /\ pc' = "unquoteValue"
    /\ UNCHANGED <<input, loadVars, findVars>>

SpecValue == InitValue /\ [][CallUnquoteValue]_vars

InitLine ==
    /\ pc = "call"
    /\ input \in LineInputs(MaxBodyLen) \cup LineExtras
    /\ output = <<>>
    /\ IdleLoad
    /\ IdleFind

CallParseLine ==
    /\ pc = "call"
    /\ output' = parseLine(input)
    /\ pc' = "parseLine"
    /\ UNCHANGED <<input, loadVars, findVars>>

SpecLine == InitLine /\ [][CallParseLine]_vars

-----------------------------------------------------------------------------
(* Properties of isValidEnvKey. *)

\* The characters of s: its runes, decoded from the first byte on.
RECURSIVE Runes(_)
Runes(s) ==
    IF s = <<>> THEN <<>>
    ELSE LET d == DecodeRune(s) IN <<d.r>> \o Runes(From(s, d.w))

\* s is well-formed UTF-8: no byte of it fails to decode.
ValidUTF8(s) == \A i \in 1..Len(Runes(s)) : Runes(s)[i] # RuneError

KeyRune(r) == IsLetter(r) \/ IsDigit(r) \/ r = Underscore

\* C4 as stated: isValidEnvKey(s) is true iff s is non-empty, its first
\* CHARACTER is a Unicode letter or underscore and every later character is a
\* Unicode letter, digit or underscore.
C4_ByCharacters ==
    (pc = "isValidEnvKey" /\ ValidUTF8(input)) =>
        output = ( /\ input # <<>>
                   /\ IsLetter(Runes(input)[1]) \/ Runes(input)[1] = Underscore
                   /\ \A i \in 2..Len(Runes(input)) : KeyRune(Runes(input)[i]) )

\* C4 amended: isValidEnvKey(s) is true iff s is non-empty, its first BYTE
\* taken as a code point is a letter or underscore, and every character decoded
\* from the bytes after the first byte is a Unicode letter, digit or
\* underscore; hence of well-formed UTF-8 text it accepts exactly the keys
\* whose first character is an ASCII letter or underscore and whose later
\* characters are Unicode letters, digits or underscores.  The call changes
\* nothing but its result.
C4_ByFirstByte ==
    pc = "isValidEnvKey" =>
        /\ output = ( /\ input # <<>>
                      /\ IsLetter(input[1]) \/ input[1] = Underscore
                      /\ \A i \in 1..Len(Runes(Tail(input))) : KeyRune(Runes(Tail(input))[i]) )
        /\ ValidUTF8(input) =>
               output = ( /\ input # <<>>
                          /\ input[1] < 128
                          /\ IsLetter(input[1]) \/ input[1] = Underscore
                          /\ \A i \in 2..Len(Runes(input)) : KeyRune(Runes(input)[i]) )
        /\ IdleLoad /\ IdleFind

\* C4 witness: a key with a non-ASCII letter and a non-ASCII digit after an
\* ASCII first letter was accepted.
C4_Witness ==
    /\ pc = "isValidEnvKey"
    /\ input = <<Ord("A"), 208, 186, 217, 163>>
    /\ output = TRUE

\* C4 witness of the amended case: a key whose first character is the letter
\* U+043A was rejected.
C4_WitnessRejected ==
    /\ pc = "isValidEnvKey"
    /\ input = <<208, 186, Ord("A")>>
    /\ output = FALSE

-----------------------------------------------------------------------------
(* Properties of unquoteValue. *)

\* C6: unquoteValue removes exactly one layer of quotes when the string has
\* at least two bytes and begins and ends with the same quote character, and
\* returns the inner content verbatim; in every other case it returns its
\* argument unchanged.
C6_OneLayer ==
    pc = "unquoteValue" =>
        IF /\ Len(input) >= 2
           /\ input[1] = input[Len(input)]
           /\ input[1] \in {DoubleQuote, SingleQuote}
        THEN input = <<input[1]>> \o output \o <<input[1]>>
        ELSE output = input

\* C6 witness: of two layers of double quotes around a backslash, one layer
\* was removed and the backslash kept.
C6_Witness ==
    /\ pc = "unquoteValue"
    /\ input = <<DoubleQuote, SingleQuote, Ord("\\"), SingleQuote, DoubleQuote>>
    /\ output = <<SingleQuote, Ord("\\"), SingleQuote>>

-----------------------------------------------------------------------------
(* Properties of parseLine. *)

Quotes == {DoubleQuote, SingleQuote}

\* The quote state after the bytes of s, read from the left: 0 outside quotes,
\* else the quote character that opened the span still open.
RECURSIVE QuoteState(_)
QuoteState(s) ==
    IF s = <<>> THEN 0
    ELSE LET before == QuoteState(SubSeq(s, 1, Len(s) - 1))
             c      == s[Len(s)]
         IN  IF c \notin Quotes THEN before
             ELSE IF before = 0 THEN c
             ELSE IF before = c THEN 0
             ELSE before

\* The positions (from 1) of the '=' of s that are outside every quoted span.
UnquotedEquals(s) ==
    {p \in 1..Len(s) : s[p] = EqualsSign /\ QuoteState(SubSeq(s, 1, p - 1)) = 0}

Min(S) == CHOOSE x \in S : \A y \in S : x <= y

\* The line as parseLine scans it: without a leading export keyword.
Scanned(line) == TrimPrefix(line, ExportKeyword)

\* C2 as stated: every line KEY=VALUE whose KEY satisfies isValidEnvKey parses,
\* to exactly KEY and VALUE, both trimmed of surrounding whitespace (VALUE also
\* of its one layer of quotes, which the claim leaves to C6).
C2_ValidLineParses ==
    pc = "parseLine" =>
        \A p \in 1..Len(input) :
            (input[p] = EqualsSign /\ isValidEnvKey(TrimSpace(SubSeq(input, 1, p - 1)))) =>
                /\ output.err = NoError
                /\ output.key = TrimSpace(SubSeq(input, 1, p - 1))
                /\ output.value = unquoteValue(TrimSpace(SubSeq(input, p + 1, Len(input))))

\* C3 as stated: for every key and value, "export KEY=VALUE" and "KEY=VALUE"
\* parse to the same outcome: the same key and value, or an error both times.
C3_ExportChangesNothing ==
    pc = "parseLine" =>
        LET exported == parseLine(Str(<<"e", "x", "p", "o", "r", "t", " ">>) \o input)
        IN  /\ (exported.err = NoError) = (output.err = NoError)
            /\ exported.key = output.key
            /\ exported.value = output.value

\* C5: parseLine splits at the first '=' outside every quoted span: without
\* one it fails for the missing equals sign; with one, the key is the trimmed
\* text before it and, when the line parses, the value is the text after it,
\* later '=' included, trimmed and unquoted; an '=' inside a quoted span is
\* never the split, and a key part that holds a quote character fails as an
\* invalid key.
C5_FirstUnquotedEquals ==
    pc = "parseLine" =>
        LET line == Scanned(input)
            eqs  == UnquotedEquals(line)
        IN  IF eqs = {} THEN output = Failed(ErrMissingEquals)
            ELSE LET p      == Min(eqs)
                     before == SubSeq(line, 1, p - 1)
                     after  == SubSeq(line, p + 1, Len(line))
                 IN  /\ output.err # ErrMissingEquals
                     /\ output.err = NoError =>
                            /\ output.key = TrimSpace(before)
                            /\ output.value = unquoteValue(TrimSpace(after))
                     /\ (\E i \in 1..Len(before) : before[i] \in Quotes) =>
                            output = Failed(ErrInvalidKey(TrimSpace(before)))
                     /\ (\A i \in 1..Len(before) : before[i] \notin Quotes) =>
                            \A q \in 1..Len(line) : line[q] = EqualsSign => q >= p

\* C5 witness: the value of A="=A" kept the '=' inside its quotes.
C5_Witness ==
    /\ pc = "parseLine"
    /\ input = <<Ord("A"), EqualsSign, DoubleQuote, EqualsSign, Ord("A"), DoubleQuote>>
    /\ output = [key |-> <<Ord("A")>>, value |-> <<EqualsSign, Ord("A")>>, err |-> NoError]

\* C5 witness of the quoted key: in "="=A the first '=' is inside the quotes,
\* the split is at the second, and the key "=" is invalid.
C5_WitnessQuotedKey ==
    /\ pc = "parseLine"
    /\ input = <<DoubleQuote, EqualsSign, DoubleQuote, EqualsSign>>
    /\ output = Failed(ErrInvalidKey(<<DoubleQuote, EqualsSign, DoubleQuote>>))

-----------------------------------------------------------------------------
(* loadFromReader.  The scanner yields the lines of the stream one at a    *)
(* time; after the last one scanner.Err() is nil or the read error.  One   *)
(* action is one pass through the body of the loop, on one path through    *)
(* its branches.                                                           *)

\* The lines a stream is made of.
LineDbPort    == Str(<<"D", "B", "_", "P", "O", "R", "T", "=", "8", "0", "8", "0">>)
LineComment   == Str(<<"#", " ", "c", "o", "m", "m", "e", "n", "t">>)
LineExport    == Str(<<"e", "x", "p", "o", "r", "t", " ", "N", "A", "M", "E", "=", "\"", "A", "\"">>)
LineBlank     == Str(<<" ", " ">>)
LineNoEquals  == Str(<<"j", "u", "s", "t", "v", "a", "l", "u", "e">>)
LineEmptyKey  == Str(<<" ", "=", "v">>)
LineBadKey    == Str(<<"1", "A", "=", "s", "e", "c", "r", "e", "t">>)
LineSpaced    == Str(<<" ", "A", " ", "=", " ", "1", "2", "3", "4", "5", " ">>)
\* A= followed by a NUL byte, a value os.Setenv refuses
LineNul       == Str(<<"A", "=">>) \o <<0>>

LineSamples ==
    { LineDbPort, LineComment, LineExport, LineBlank, LineNoEquals,
      LineEmptyKey, LineBadKey, LineSpaced, LineNul }

NameDbPort == Str(<<"D", "B", "_", "P", "O", "R", "T">>)
NameName   == Str(<<"N", "A", "M", "E">>)
NameA      == Str(<<"A">>)
OldDbPort  == Str(<<"5", "4", "3", "2">>)

\* The environments a load starts in: DB_PORT set to 5432, or nothing set.
InitialEnvs == { <<>>, NameDbPort :> OldDbPort }

\* All streams of at most n lines.
StreamsOf(n) == UNION {[1..k -> LineSamples] : k \in 0..n}

\* os.Getenv: the value, empty when the variable is not set.
Getenv(key) == IF key \in DOMAIN env THEN env[key] ELSE <<>>

\* Whether os.Setenv(key, value) returns an error: the key is empty or holds
\* '=' or NUL, or the value holds NUL.
SetenvFailsOn(key, value) ==
    \/ key = <<>>
    \/ \E i \in 1..Len(key) : key[i] = EqualsSign \/ key[i] = 0
    \/ \E i \in 1..Len(value) : value[i] = 0

\* The table after a successful os.Setenv(key, value).
Setenv(key, value) == (key :> value) @@ env

\* The errors loadFromReader returns; NoError is nil.
ErrSet(key) == <<"failed to set %s: %w", key>>
ErrRead == <<"read error: %w">>

\* The line of the pass: strings.TrimSpace(scanner.Text()).
line == TrimSpace(reader.lines[lineNo + 1])

\* scanner.Scan() returned true.
scanned == pc = "scan" /\ lineNo < Len(reader.lines)

\* line == "" || strings.HasPrefix(line, "#")
isBlankOrComment(l) == l = <<>> \/ HasPrefix(l, <<Hash>>)

\* The condition of the set branch with the check of the environment dropped.
mustSetAlways(key) == TRUE

\* The condition of the set branch: options.Overwrite || os.Getenv(key) == "".
mustSet(key) == options.Overwrite \/ Getenv(key) = <<>>

\* The mask debug mode prints for a value.
maskOf(value) ==
    IF Len(value) < 5 THEN Repeat(Asterisk, Len(value)) ELSE Repeat(Asterisk, 3)

\* What the two Fprintf calls write to os.Stderr.
LogSkip(l, err) == [format |-> "quickenv: [DEBUG] skip invalid line %q: %v\n", args |-> <<l, err>>]
LogSet(key, mask) == [format |-> "quickenv: [DEBUG] set %s=%s\n", args |-> <<key, mask>>]

InitLoad ==
    /\ pc = "scan"
    /\ reader \in [lines : StreamsOf(MaxLines), fails : BOOLEAN]
    /\ options \in [Overwrite : BOOLEAN, Debug : BOOLEAN]
    /\ env \in InitialEnvs
    /\ lineNo = 0
    /\ loaded = 0
    /\ ret = <<>>
    /\ stderr = <<>>
    /\ IdlePure
    /\ IdleFind

\* if line == "" || strings.HasPrefix(line, "#") { continue }
SkipBlankOrComment ==
    /\ scanned
    /\ isBlankOrComment(line)
    /\ lineNo' = lineNo + 1
    /\ UNCHANGED <<pc, reader, options, env, loaded, ret, stderr, pureVars, findVars>>

\* A line that does not parse, made fatal: the load returns its error.
InvalidLineIsFatal ==
    /\ scanned
    /\ LET l      == line
           parsed == parseLine(l)
       IN  /\ ~isBlankOrComment(l)
           /\ parsed.err # NoError
           /\ ret' = [count |-> loaded, err |-> parsed.err]
    /\ lineNo' = lineNo + 1
    /\ pc' = "returned"
    /\ UNCHANGED <<reader, options, env, loaded, stderr, pureVars, findVars>>

\* if err != nil { if options.Debug { Fprintf(...) }; continue }
SkipInvalidLine ==
    /\ scanned
    /\ LET l      == line
           parsed == parseLine(l)
       IN  /\ ~isBlankOrComment(l)
           /\ parsed.err # NoError
           /\ stderr' = IF options.Debug
                        THEN Append(stderr, LogSkip(l, parsed.err))
                        ELSE stderr
    /\ lineNo' = lineNo + 1
    /\ UNCHANGED <<pc, reader, options, env, loaded, ret, pureVars, findVars>>

\* The line parses and the condition of the set branch is false.
KeepExisting ==
    /\ scanned
    /\ LET l      == line
           parsed == parseLine(l)
       IN  /\ ~isBlankOrComment(l)
           /\ parsed.err = NoError
           /\ ~mustSet(parsed.key)
    /\ lineNo' = lineNo + 1
    /\ UNCHANGED <<pc, reader, options, env, loaded, ret, stderr, pureVars, findVars>>

\* The line parses, the condition holds and os.Setenv succeeds.
SetVariable ==
    /\ scanned
    /\ LET l      == line
           parsed == parseLine(l)
       IN  /\ ~isBlankOrComment(l)
           /\ parsed.err = NoError
           /\ mustSet(parsed.key)
           /\ ~SetenvFailsOn(parsed.key, parsed.value)
           /\ env' = Setenv(parsed.key, parsed.value)
           /\ loaded' = loaded + 1
           /\ stderr' = IF options.Debug
                        THEN Append(stderr, LogSet(parsed.key, maskOf(parsed.value)))
                        ELSE stderr
    /\ lineNo' = lineNo + 1
    /\ UNCHANGED <<pc, reader, options, ret, pureVars, findVars>>

\* A failing os.Setenv that gives up the count: the load returns 0.
SetenvFailsDropsCount ==
    /\ scanned
    /\ LET l      == line
           parsed == parseLine(l)
       IN  /\ ~isBlankOrComment(l)
           /\ parsed.err = NoError
           /\ mustSet(parsed.key)
           /\ SetenvFailsOn(parsed.key, parsed.value)
           /\ ret' = [count |-> 0, err |-> ErrSet(parsed.key)]
    /\ pc' = "returned"
    /\ lineNo' = lineNo + 1
    /\ UNCHANGED <<reader, options, env, loaded, stderr, pureVars, findVars>>

\* The line parses, the condition holds and os.Setenv fails:
\* return loaded, fmt.Errorf("failed to set %s: %w", key, err)
SetenvFails ==
    /\ scanned
    /\ LET l      == line
           parsed == parseLine(l)
       IN  /\ ~isBlankOrComment(l)
           /\ parsed.err = NoError
           /\ mustSet(parsed.key)
           /\ SetenvFailsOn(parsed.key, parsed.value)
           /\ ret' = [count |-> loaded, err |-> ErrSet(parsed.key)]
    /\ pc' = "returned"
    /\ lineNo' = lineNo + 1
    /\ UNCHANGED <<reader, options, env, loaded, stderr, pureVars, findVars>>

\* scanner.Scan() returned false: the read error, or nil, with the count.
ScanEnds ==
    /\ pc = "scan"
    /\ lineNo = Len(reader.lines)
    /\ ret' = [count |-> loaded, err |-> IF reader.fails THEN ErrRead ELSE NoError]
    /\ pc' = "returned"
    /\ UNCHANGED <<reader, options, env, lineNo, loaded, stderr, pureVars, findVars>>

NextLoad ==
    \/ SkipBlankOrComment
    \/ SkipInvalidLine
    \/ KeepExisting
    \/ SetVariable
    \/ SetenvFails
    \/ ScanEnds

SpecLoad == InitLoad /\ [][NextLoad]_vars

-----------------------------------------------------------------------------
(* Properties of loadFromReader. *)

\* The variable named key is unset or empty in the table e.
Unset(e, key) == key \notin DOMAIN e \/ e[key] = <<>>

\* Table e2 is table e1 with key set to value and nothing else changed.
IsSetOf(e2, e1, key, value) ==
    /\ DOMAIN e2 = DOMAIN e1 \cup {key}
    /\ e2[key] = value
    /\ \A k \in DOMAIN e1 \ {key} : e2[k] = e1[k]

\* A pass of the loop is about to run on a line.
AtLine == pc = "scan" /\ lineNo < Len(reader.lines)

\* The trimmed line has no '=' outside quotes, or an empty key, or an invalid key.
FailsToParse(l) ==
    LET scannedLine == Scanned(l)
        eqs         == UnquotedEquals(scannedLine)
    IN  \/ eqs = {}
        \/ LET key == TrimSpace(SubSeq(scannedLine, 1, Min(eqs) - 1))
           IN  key = <<>> \/ ~isValidEnvKey(key)

\* The stream of the scenario: DB_PORT=8080, # comment, export NAME="A".
ScenarioLines == <<LineDbPort, LineComment, LineExport>>

C1_Scenario ==
    ( /\ pc = "returned"
      /\ reader.lines = ScenarioLines
      /\ ~options.Overwrite
      /\ ~Unset(env, NameDbPort) /\ env[NameDbPort] = OldDbPort ) =>
        /\ ret.count = 1
        /\ ~Unset(env, NameName) /\ env[NameName] = <<Ord("A")>>

C1_Pass ==
    AtLine =>
        LET l       == line
            parsed  == parseLine(l)
            parses  == ~isBlankOrComment(l) /\ parsed.err = NoError
            allowed == options.Overwrite \/ Unset(env, parsed.key)
        IN  /\ (env' # env \/ loaded' # loaded) =>
                /\ parses /\ allowed
                /\ IsSetOf(env', env, parsed.key, parsed.value)
                /\ loaded' = loaded + 1
            /\ (parses /\ ~allowed) => (env' = env /\ loaded' = loaded)

\* C1: loadFromReader sets the variable of a parsed line only if Overwrite
\* is true or the variable is unset or empty when the line is processed, and
\* counts a line only when it sets its variable; with Overwrite false a
\* non-empty variable is left untouched and not counted, so the scenario
\* stream with DB_PORT already set returns 1.
C1_SetOnlyIfAllowed == []C1_Scenario /\ [][C1_Pass]_vars

\* C1 witness: the scenario stream was loaded over DB_PORT=5432 without
\* Overwrite and returned 1.
C1_Witness ==
    /\ pc = "returned"
    /\ reader.lines = ScenarioLines
    /\ ~options.Overwrite
    /\ ~Unset(env, NameDbPort) /\ env[NameDbPort] = OldDbPort
    /\ ret = [count |-> 1, err |-> NoError]

C7_Pass ==
    (AtLine /\ (isBlankOrComment(line) \/ FailsToParse(line))) =>
        /\ env' = env
        /\ loaded' = loaded
        /\ ret' = ret
        /\ pc' = "scan"
        /\ lineNo' = lineNo + 1

C7_Return ==
    pc = "returned" =>
        /\ ret.err \in {NoError, ErrRead} \cup {ErrSet(k) : k \in {NameDbPort, NameName, NameA}}
        /\ ret.err \in {NoError, ErrRead} => lineNo = Len(reader.lines)

\* C7: a line that fails to parse (no unquoted '=', empty key or invalid
\* key), a blank line and a comment line are skipped: the pass leaves the
\* environment and the count unchanged and goes on to the next line, and
\* the load returns no error on their account, having processed every line.
C7_ParseErrorsNotFatal == []C7_Return /\ [][C7_Pass]_vars

\* C7 witness: after a line without '=', a line with an empty key and a
\* line with an invalid key, the load returned without an error.
C7_Witness ==
    /\ pc = "returned"
    /\ reader.lines = <<LineNoEquals, LineEmptyKey, LineBadKey>>
    /\ lineNo = 3
    /\ ret = [count |-> 0, err |-> NoError]

\* C7 witness of the later line: a line after an unparsable line was applied.
C7_WitnessLaterLine ==
    /\ pc = "returned"
    /\ reader.lines = <<LineBadKey, LineDbPort>>
    /\ ~Unset(env, NameDbPort) /\ env[NameDbPort] = Str(<<"8", "0", "8", "0">>)
    /\ ret = [count |-> 1, err |-> NoError]

\* The mask the claim describes: as many asterisks as the value has bytes
\* when it has fewer than 4, three asterisks otherwise.
ClaimedMask(value) ==
    IF Len(value) < 4 THEN Repeat(Asterisk, Len(value)) ELSE Repeat(Asterisk, 3)

\* C9 as stated: in debug mode, for each variable it sets, loadFromReader
\* logs the key with a run of asterisks as long as the value when the value
\* is shorter than 4, and with *** otherwise.
C9_MaskedLog ==
    [][ \A i \in (Len(stderr) + 1)..Len(stderr') :
            stderr'[i].format = LogSet(<<>>, <<>>).format =>
                LET key == stderr'[i].args[1]
                IN  stderr'[i].args = <<key, ClaimedMask(env'[key])>> ]_vars

C10_Pass ==
    LET l      == line
        parsed == parseLine(l)
    IN  ( /\ AtLine
          /\ ~isBlankOrComment(l)
          /\ parsed.err = NoError
          /\ options.Overwrite \/ Unset(env, parsed.key)
          /\ \E i \in 1..Len(parsed.value) : parsed.value[i] = 0 ) =>
            /\ pc' = "returned"
            /\ ret' = [count |-> loaded, err |-> ErrSet(parsed.key)]
            /\ env' = env

C10_End ==
    (pc = "scan" /\ lineNo = Len(reader.lines)) =>
        ret' = [count |-> loaded, err |-> IF reader.fails THEN ErrRead ELSE NoError]

\* In debug mode every variable set is logged, so the log counts them.
C10_Count ==
    (pc = "returned" /\ options.Debug) =>
        ret.count = Cardinality({i \in 1..Len(stderr) : stderr[i].format = LogSet(<<>>, <<>>).format})

\* C10: when os.Setenv fails on a line the load returns at once, with that
\* error and the count of the variables set before the line; nothing runs
\* after the return, so no later line is applied; a read error of the stream
\* is returned with the count reached.
C10_AbortKeepsCount ==
    /\ []C10_Count
    /\ [][C10_Pass /\ C10_End /\ pc # "returned"]_vars

\* C10 witness: the second line failed in os.Setenv after the first set a
\* variable; the load returned 1 with the error and left the third line unread.
C10_Witness ==
    /\ pc = "returned"
    /\ reader.lines = <<LineDbPort, LineNul, LineSpaced>>
    /\ lineNo = 2
    /\ ret = [count |-> 1, err |-> ErrSet(NameA)]
    /\ Unset(env, NameA)

\* C10 witness of the read error: the stream failed after two lines, one of
\* which set a variable.
C10_WitnessReadError ==
    /\ pc = "returned"
    /\ reader = [lines |-> <<LineSpaced, LineComment>>, fails |-> TRUE]
    /\ ret = [count |-> 1, err |-> ErrRead]

-----------------------------------------------------------------------------
(* findEnvFile.  The working directory and its ancestors form a chain; a   *)
(* directory is named by its depth, the root being 0, and fs.holds is the  *)
(* set of directories in which os.Stat of the file name succeeds.          *)

\* The pathname argument.
Pathname == ".env"

\* filepath.Dir of a directory: its parent, the root being its own.
Dir(d) == IF d = 0 THEN 0 ELSE d - 1

\* The paths findEnvFile returns: pathname as given, or filepath.Join(dir, pathname).
Relative == <<Pathname>>
Join(d) == <<d, Pathname>>

\* The errors findEnvFile returns; NoError is nil.
ErrGetwd == <<"cannot get current dir: %w">>
ErrNotFound == <<"env file not found: %s", Pathname>>

InitFind ==
    /\ pc = "stat"
    /\ fs \in { [depth |-> d, holds |-> h, getwdFails |-> g] :
                    d \in 0..MaxDepth, h \in SUBSET (0..MaxDepth), g \in BOOLEAN }
    /\ fs.holds \subseteq 0..fs.depth
    /\ search \in { [maxLevels |-> m, dir |-> 0, level |-> 0, stats |-> <<>>] :
                        m \in 0..MaxMaxLevels }
    /\ found = <<>>
    /\ IdlePure
    /\ IdleLoad

\* Step 1, found: os.Stat(pathname) succeeds in the working directory.
StatHere ==
    /\ pc = "stat"
    /\ fs.depth \in fs.holds
    /\ search' = [search EXCEPT !.stats = Append(@, fs.depth)]
    /\ found' = [path |-> Relative, err |-> NoError]
    /\ pc' = "returned"
    /\ UNCHANGED <<fs, pureVars, loadVars>>

\* Step 1, not found.
StatHereMisses ==
    /\ pc = "stat"
    /\ fs.depth \notin fs.holds
    /\ search' = [search EXCEPT !.stats = Append(@, fs.depth)]
    /\ pc' = "getwd"
    /\ UNCHANGED <<fs, found, pureVars, loadVars>>

\* Step 2: os.Getwd fails.
GetwdFails ==
    /\ pc = "getwd"
    /\ fs.getwdFails
    /\ found' = [path |-> <<>>, err |-> ErrGetwd]
    /\ pc' = "returned"
    /\ UNCHANGED <<fs, search, pureVars, loadVars>>

\* Step 2: dir is the working directory.
Getwd ==
    /\ pc = "getwd"
    /\ ~fs.getwdFails
    /\ search' = [search EXCEPT !.dir = fs.depth]
    /\ pc' = "loop"
    /\ UNCHANGED <<fs, found, pureVars, loadVars>>

\* The loop condition with one level too many.
moreLevelsOffByOne == search.level <= search.maxLevels

\* for range maxLevels: another iteration is due.
moreLevels == search.level < search.maxLevels

\* An iteration that finds the file in the parent directory.
ClimbFinds ==
    /\ pc = "loop"
    /\ moreLevels
    /\ LET parent == Dir(search.dir)
       IN  /\ parent # search.dir
           /\ parent \in fs.holds
           /\ search' = [search EXCEPT !.dir = parent, !.level = @ + 1,
                                       !.stats = Append(@, parent)]
           /\ found' = [path |-> Join(parent), err |-> NoError]
    /\ pc' = "returned"
    /\ UNCHANGED <<fs, pureVars, loadVars>>

\* An iteration that does not find the file in the parent directory.
ClimbMisses ==
    /\ pc = "loop"
    /\ moreLevels
    /\ LET parent == Dir(search.dir)
       IN  /\ parent # search.dir
           /\ parent \notin fs.holds
           /\ search' = [search EXCEPT !.dir = parent, !.level = @ + 1,
                                       !.stats = Append(@, parent)]
    /\ UNCHANGED <<pc, fs, found, pureVars, loadVars>>

\* The loop ends, by its count or by the break at the root: not found.
GiveUp ==
    /\ pc = "loop"
    /\ \/ ~moreLevels
       \/ moreLevels /\ Dir(search.dir) = search.dir
    /\ found' = [path |-> <<>>, err |-> ErrNotFound]
    /\ pc' = "returned"
    /\ UNCHANGED <<fs, search, pureVars, loadVars>>

NextFind ==
    \/ StatHere
    \/ StatHereMisses
    \/ GetwdFails
    \/ Getwd
    \/ ClimbFinds
    \/ ClimbMisses
    \/ GiveUp

SpecFind == InitFind /\ [][NextFind]_vars

-----------------------------------------------------------------------------
(* Properties of findEnvFile. *)

\* The smaller of two numbers.
Least(a, b) == IF a < b THEN a ELSE b

\* The directories examined are the working directory first and then its
\* ancestors in order, at most maxLevels of them.
C8_NearestFirst ==
    /\ Len(search.stats) <= 1 + Least(search.maxLevels, fs.depth)
    /\ \A i \in 1..Len(search.stats) : search.stats[i] = fs.depth - (i - 1)

\* A match is returned as soon as it is examined: it is the last directory
\* examined, no directory examined before it holds the file, and the path is
\* the name as given in the working directory and the joined path above it.
C8_FirstMatch ==
    (pc = "returned" /\ found.err = NoError) =>
        LET n == Len(search.stats)
        IN  /\ n >= 1
            /\ search.stats[n] \in fs.holds
            /\ \A i \in 1..(n - 1) : search.stats[i] \notin fs.holds
            /\ found.path = IF n = 1 THEN Relative ELSE Join(search.stats[n])

\* No directory examined holds the file.
NoneHolds == \A i \in 1..Len(search.stats) : search.stats[i] \notin fs.holds

\* C8 as stated: the working directory is checked first, then at most
\* maxLevels parents up to the root, the nearest match is returned and nothing
\* beyond it is examined; if no examined directory holds the file the call
\* fails with the not-found error that carries the requested name.
C8_NotFoundWhenNoneHolds ==
    /\ C8_NearestFirst
    /\ C8_FirstMatch
    /\ (pc = "returned" /\ NoneHolds) => found = [path |-> <<>>, err |-> ErrNotFound]

\* C8 amended: as stated, except that when the working directory does not
\* hold the file and os.Getwd fails, the call fails with the cannot-get-
\* current-dir error after examining only the working directory; otherwise,
\* if no examined directory holds the file, every directory from the working
\* directory up to maxLevels parents or the root has been examined and the
\* call fails with the not-found error that carries the requested name.
C8_NotFoundUnlessGetwdFails ==
    /\ C8_NearestFirst
    /\ C8_FirstMatch
    /\ (pc = "returned" /\ NoneHolds) =>
           IF fs.getwdFails
           THEN found = [path |-> <<>>, err |-> ErrGetwd] /\ search.stats = <<fs.depth>>
           ELSE /\ found = [path |-> <<>>, err |-> ErrNotFound]
                /\ Len(search.stats) = 1 + Least(search.maxLevels, fs.depth)

\* C8 witness: with maxLevels 3 the file two directories up was found and
\* returned, though the directory above it holds the file too.
C8_Witness ==
    /\ pc = "returned"
    /\ fs = [depth |-> 3, holds |-> {0, 1}, getwdFails |-> FALSE]
    /\ search.maxLevels = 3
    /\ search.stats = <<3, 2, 1>>
    /\ found = [path |-> Join(1), err |-> NoError]

\* C8 witness of the failure: the search stopped at the root, one level
\* short of maxLevels, and reported the file not found.
C8_WitnessNotFound ==
    /\ pc = "returned"
    /\ fs = [depth |-> 2, holds |-> {}, getwdFails |-> FALSE]
    /\ search.maxLevels = 3
    /\ search.stats = <<2, 1, 0>>
    /\ found = [path |-> <<>>, err |-> ErrNotFound]

-----------------------------------------------------------------------------
(* The whole model: any one of the calls. *)

Init == InitKey \/ InitValue \/ InitLine \/ InitLoad \/ InitFind

Next ==
    \/ CallIsValidEnvKey
    \/ CallUnquoteValue
    \/ CallParseLine
    \/ NextLoad
    \/ NextFind

Spec == Init /\ [][Next]_vars

=============================================================================
